---- MODULE Spec2Model ----
(***************************************************************************)
(* Session stores of goauth: the redis session handler (redis.go) with its *)
(* per-user key set maintained by a background goroutine, and the SQL      *)
(* session handler (sql.go).  User stores of goauth: the redis and the SQL *)
(* user handler, and the RWMutex of the SQL handlers built with blockDB.   *)
(*                                                                         *)
(* Time is counted in ticks, Res ticks to the second.  Text timestamps     *)
(* (RedisDateFormat, DATETIME columns) carry whole seconds only.           *)
(* A call of the synchronous API is one step.  The goroutine CreateEntry    *)
(* starts runs one store command to the step, its delUserKeys included.    *)
(* A store command may fail as long as CreateEntry calls and failed        *)
(* commands together stay below MaxEvents.                                 *)
(***************************************************************************)
EXTENDS Integers, Sequences, FiniteSets, Bags, TLC

\* ------------------------------------------------------------------ bounds
\* the clock stops at MaxTime ticks
MaxTime == 2
\* CreateEntry calls and failed store commands, taken together
MaxEvents == 2

\* ticks to the second
Res == 2

Users == {1, 2}
SKeys == {"a", "b"}
\* validDuration values handed to CreateEntry, in ticks (whole seconds)
Durations == {1 * Res, 2 * Res}
Backends == {"redis", "sql"}

VARIABLES backend, now, db, rows, tasks, faults, creates, issued, ret,
          udb, utab, pending, mutex, procs

\* issued: the (user, key) pairs CreateEntry has returned a session for
vars == <<backend, now, db, rows, tasks, faults, creates, issued, ret,
          udb, utab, pending, mutex, procs>>

\* the user handlers: the redis keys of RedisUserHandler, the users table of
\* SQLUserHandler, the Insert calls in progress, the handlers' mutexes and
\* the callers that use them
uvars == <<udb, utab, pending, mutex, procs>>

\* ------------------------------------------------------------ text values
\* fmt.Sprintf("%v", user): the decimal text of the user id
UserText(u) == [txt |-> "num", val |-> ToString(u)]

\* a format that writes the tick count where the seconds belong
RedisDateFormatTicks(t) == [txt |-> "time", val |-> ToString(t)]
\* Time.Format(RedisDateFormat): the text holds the whole seconds of t
RedisDateFormat(t) == [txt |-> "time", val |-> ToString(t \div Res)]

NilText == [txt |-> "nil", val |-> ""]

\* time.Parse(RedisDateFormat, s): the instant at the start of that second
ParseTime(s) ==
  IF s.txt = "time" /\ \E n \in 0..(2 * MaxTime + 8) : ToString(n) = s.val
    THEN [ok |-> TRUE, t |-> Res * (CHOOSE n \in 0..(2 * MaxTime + 8) : ToString(n) = s.val)]
    ELSE [ok |-> FALSE, t |-> 0]

\* default ConvertUser: strconv.ParseUint(val, 10, 64)
ConvertUser(s) ==
  IF s.txt = "num" /\ \E u \in Users : ToString(u) = s.val
    THEN [ok |-> TRUE, u |-> CHOOSE u \in Users : ToString(u) = s.val]
    ELSE [ok |-> FALSE, u |-> 0]

\* -------------------------------------------------------- the redis store
SessionPrefix == "skey:"
UserPrefix == "usessions:"

SessionName(k) == <<SessionPrefix, k>>
UserIdentifier(u) == <<UserPrefix, ToString(u)>>
RawName(k) == <<"", k>>

Names == {SessionName(k) : k \in SKeys} \cup {RawName(k) : k \in SKeys}
           \cup {UserIdentifier(u) : u \in Users}

NoExp == -1
NoFields == [f \in {} |-> NilText]
Nil == [type |-> "none", fields |-> NoFields, members |-> {}, exp |-> NoExp]

RExists(d, name) == IF d[name].type = "none" THEN 0 ELSE 1

\* HMSET: creates the hash or overwrites the given fields of an existing one;
\* the expiry of an existing key is kept.
RHMSet(d, name, flds) ==
  IF d[name].type = "hash"
    THEN [d EXCEPT ![name].fields = flds @@ @]
    ELSE [d EXCEPT ![name] = [type |-> "hash", fields |-> flds, members |-> {}, exp |-> NoExp]]

\* go-redis formatSec: a time.Duration as whole seconds, truncated towards 0
FormatSec(dur) == IF dur >= 0 THEN dur \div Res ELSE -((-dur) \div Res)

\* EXPIRE at time t: no effect on a missing key; a non-positive timeout
\* deletes the key.
RExpire(d, name, dur, t) ==
  IF d[name].type = "none" THEN d
  ELSE IF FormatSec(dur) <= 0 THEN [d EXCEPT ![name] = Nil]
  ELSE [d EXCEPT ![name].exp = t + Res * FormatSec(dur)]

\* TTL at time t as the time.Duration go-redis returns: -2s for a missing
\* key, -1s for a key without expiry, else the remaining time rounded to
\* the nearest second.
RTTL(d, name, t) ==
  IF d[name].type = "none" THEN -2 * Res
  ELSE IF d[name].exp = NoExp THEN -1 * Res
  ELSE Res * ((2 * (d[name].exp - t) + Res) \div (2 * Res))

RSAdd(d, name, m) ==
  IF d[name].type = "set"
    THEN [d EXCEPT ![name].members = @ \cup {m}]
    ELSE [d EXCEPT ![name] = [type |-> "set", fields |-> NoFields, members |-> {m}, exp |-> NoExp]]

RSMembers(d, name) == IF d[name].type = "set" THEN d[name].members ELSE {}

\* a DEL that counts the names it was given
RDelCountGiven(d, names) == Cardinality(names)

RDelCount(d, names) == Cardinality({n \in names : d[n].type # "none"})
RDel(d, names) == [n \in Names |-> IF n \in names THEN Nil ELSE d[n]]

\* HMGET on a hash: the value of each field, nil for a missing one
RHMGet(d, name, fs) ==
  [i \in 1..Len(fs) |->
     IF d[name].type = "hash" /\ fs[i] \in DOMAIN d[name].fields
       THEN d[name].fields[fs[i]] ELSE NilText]

\* keys whose expiry has passed are gone
Purge(d, t) ==
  [n \in Names |-> IF d[n].exp # NoExp /\ d[n].exp <= t THEN Nil ELSE d[n]]

\* ----------------------------------------------------- results of a call
NoData == [User |-> 0, CreationTime |-> -1, ValidUntil |-> -1]
\* the reserved id returned when no user is meant
NoUserID == -1

NoInfo == [ID |-> NoUserID, UserName |-> "", FirstName |-> "", LastName |-> "",
           Email |-> "", LastLogin |-> -1, IsActive |-> FALSE]

\* what a step returns to a caller; the last four fields belong to the
\* calls of the user handlers
NoRet == [op |-> "none", err |-> "nil", user |-> 0, key |-> "", d |-> 0,
          data |-> NoData, count |-> 0,
          pw |-> "", name |-> "", users |-> {}, info |-> NoInfo]

Ret(op, err, u, k, d, data, count) ==
  [NoRet EXCEPT !.op = op, !.err = err, !.user = u, !.key = k, !.d = d,
                !.data = data, !.count = count]

\* the outcomes of one store command: it works, or it fails (an event)
Events == creates + faults
Outcomes == IF Events < MaxEvents THEN {TRUE, FALSE} ELSE {TRUE}
Charge(ok) == faults' = IF ok THEN faults ELSE faults + 1
\* the same for a command of CreateEntry, whose call is an event itself
CreateOutcomes == IF Events + 1 < MaxEvents THEN {TRUE, FALSE} ELSE {TRUE}

\* CurrentTimeKeyData(user, validDuration): creationTime = now,
\* validUntil = now + validDuration
CurrentTimeKeyData(u, d, t) == [User |-> u, CreationTime |-> t, ValidUntil |-> t + d]

\* ------------------------------------------- RedisSessionHandler, the reads
GetDataFields == <<"User", "CreationTime", "ValidUntil">>

RedisGetData(d, k) ==
  LET entry == RHMGet(d, SessionName(k), GetDataFields)
      user == ConvertUser(entry[1])
      creation == ParseTime(entry[2])
      valid == ParseTime(entry[3])
      fail(e) == [err |-> e, data |-> NoData]
  IN IF entry[1].txt = "nil" THEN fail("ErrKeyNotFound")
     ELSE IF ~user.ok THEN fail("ParseErr")
     ELSE IF entry[2].txt = "nil" THEN fail("WeirdValue")
     ELSE IF ~creation.ok THEN fail("ParseErr")
     ELSE IF entry[3].txt = "nil" THEN fail("WeirdValue")
     ELSE IF ~valid.ok THEN fail("ParseErr")
     ELSE [err |-> "nil",
           data |-> [User |-> user.u, CreationTime |-> creation.t, ValidUntil |-> valid.t]]

\* ------------------------------------------------- goroutines in progress
\* the maintenance goroutines CreateEntry has started and that have not
\* finished, as a bag of their local states; pc names the next command
NewTask(u, k, d) == [pc |-> "sadd", user |-> u, key |-> k, d |-> d,
                     userExp |-> 0, all |-> {}, dels |-> {}]

Running == BagToSet(tasks)
Spawn(t) == tasks (+) SetToBag({t})
Step(t, t2) == (tasks (-) SetToBag({t})) (+) SetToBag({t2})
Finish(t) == tasks (-) SetToBag({t})

\* ------------------------------------------------------------ delUserKeys
\* what delUserKeys appends to keysForDelete for one member of the set
KeyForDelete(userKey, delAll) ==
  IF delAll THEN RawName(userKey) ELSE SessionName(userKey)

\* --------------------------------------------- RedisSessionHandler, calls
RedisCreateEntry(u, k, d) ==
  /\ backend = "redis"
  /\ Events < MaxEvents
  /\ creates' = creates + 1
  /\ LET data == CurrentTimeKeyData(u, d, now)
         db1 == RHMSet(db, SessionName(k),
                       [User |-> UserText(u),
                        CreationTime |-> RedisDateFormat(data.CreationTime),
                        ValidUntil |-> RedisDateFormat(data.ValidUntil)])
         db2 == RExpire(db1, SessionName(k), d, now)
     IN \E hmsetOk \in CreateOutcomes :
          IF ~hmsetOk
            THEN /\ Charge(FALSE)
                 /\ ret' = Ret("CreateEntry", "StoreErr", u, k, d, NoData, 0)
                 /\ UNCHANGED <<db, tasks, issued>>
            ELSE \E expireOk \in CreateOutcomes :
                   /\ Charge(expireOk)
                   /\ IF ~expireOk
                        THEN /\ db' = db1
                             /\ ret' = Ret("CreateEntry", "StoreErr", u, k, d, NoData, 0)
                             /\ UNCHANGED <<tasks, issued>>
                        ELSE /\ db' = db2
                             /\ tasks' = Spawn(NewTask(u, k, d))
                             /\ issued' = issued \cup {<<u, k>>}
                             /\ ret' = Ret("CreateEntry", "nil", u, k, d, data, 0)
  /\ UNCHANGED <<backend, now, rows>>
  /\ UNCHANGED uvars

RedisGetDataCall(k) ==
  /\ backend = "redis"
  /\ \E ok \in Outcomes :
       /\ Charge(ok)
       /\ ret' = IF ok
                   THEN Ret("GetData", RedisGetData(db, k).err, 0, k, 0, RedisGetData(db, k).data, 0)
                   ELSE Ret("GetData", "StoreErr", 0, k, 0, NoData, 0)
  /\ UNCHANGED <<backend, creates, issued, now, db, rows, tasks>>
  /\ UNCHANGED uvars

\* a DeleteKey that leaves the SessionPrefix out of the name
RedisDeleteKeyRaw(k) ==
  /\ backend = "redis"
  /\ \E ok \in Outcomes :
       /\ Charge(ok)
       /\ db' = IF ok THEN RDel(db, {RawName(k)}) ELSE db
       /\ ret' = Ret("DeleteKey", IF ok THEN "nil" ELSE "StoreErr", 0, k, 0, NoData, 0)
  /\ UNCHANGED <<backend, creates, issued, now, rows, tasks>>
  /\ UNCHANGED uvars
RedisDeleteKey(k) ==
  /\ backend = "redis"
  /\ \E ok \in Outcomes :
       /\ Charge(ok)
       /\ db' = IF ok THEN RDel(db, {SessionName(k)}) ELSE db
       /\ ret' = Ret("DeleteKey", IF ok THEN "nil" ELSE "StoreErr", 0, k, 0, NoData, 0)
  /\ UNCHANGED <<backend, creates, issued, now, rows, tasks>>
  /\ UNCHANGED uvars

\* delUserKeys(userIdentifier, true), run as one step of the caller
RedisDeleteEntriesForUser(u) ==
  /\ backend = "redis"
  /\ LET allUserKeys == RSMembers(db, UserIdentifier(u))
         keysForDelete == {KeyForDelete(userKey, TRUE) : userKey \in allUserKeys}
         result(count, err) == Ret("DeleteEntriesForUser", err, u, "", 0, NoData, count)
     IN \E getOk \in Outcomes :
          IF ~getOk
            THEN /\ Charge(FALSE)
                 /\ ret' = result(0, "StoreErr")
                 /\ db' = db
            ELSE IF keysForDelete = {}
              THEN /\ Charge(TRUE)
                   /\ ret' = result(0, "nil")
                   /\ db' = db
              ELSE \E delOk \in Outcomes :
                     /\ Charge(delOk)
                     /\ db' = IF delOk THEN RDel(db, keysForDelete) ELSE db
                     /\ ret' = IF delOk THEN result(RDelCount(db, keysForDelete), "nil")
                                        ELSE result(0, "StoreErr")
  /\ UNCHANGED <<backend, creates, issued, now, rows, tasks>>
  /\ UNCHANGED uvars

\* a DeleteInvalidKeys that removes the records whose ValidUntil has passed
RedisDeleteInvalidKeysSweep ==
  /\ backend = "redis"
  /\ LET invalid == {SessionName(k) : k \in {j \in SKeys :
                        /\ RedisGetData(db, j).err = "nil"
                        /\ RedisGetData(db, j).data.ValidUntil <= now}}
     IN /\ db' = RDel(db, invalid)
        /\ ret' = Ret("DeleteInvalidKeys", "nil", 0, "", 0, NoData, RDelCount(db, invalid))
  /\ UNCHANGED <<backend, creates, issued, now, rows, tasks, faults>>
  /\ UNCHANGED uvars
RedisDeleteInvalidKeys ==
  /\ backend = "redis"
  /\ ret' = Ret("DeleteInvalidKeys", "nil", 0, "", 0, NoData, 0)
  /\ UNCHANGED <<backend, creates, issued, now, db, rows, tasks, faults>>
  /\ UNCHANGED uvars

\* ------------------------------ the maintenance goroutine of CreateEntry
\* an SAdd whose failure comes back as the result of CreateEntry
MaintSAddSurfaced(t) ==
  /\ t.pc = "sadd"
  /\ \E ok \in Outcomes :
       /\ Charge(ok)
       /\ db' = IF ok THEN RSAdd(db, UserIdentifier(t.user), t.key) ELSE db
       /\ ret' = IF ok THEN NoRet
                       ELSE Ret("CreateEntry", "StoreErr", t.user, t.key, t.d, NoData, 0)
  /\ tasks' = Step(t, [t EXCEPT !.pc = "ttl"])
  /\ UNCHANGED <<backend, creates, issued, now, rows>>
  /\ UNCHANGED uvars
MaintSAdd(t) ==
  /\ t.pc = "sadd"
  /\ \E ok \in Outcomes :
       /\ Charge(ok)
       /\ db' = IF ok THEN RSAdd(db, UserIdentifier(t.user), t.key) ELSE db
  /\ tasks' = Step(t, [t EXCEPT !.pc = "ttl"])
  /\ ret' = NoRet
  /\ UNCHANGED <<backend, creates, issued, now, rows>>
  /\ UNCHANGED uvars

\* userExp: validDuration, or the set's TTL when that is larger
UserExp(ttl, validDuration) == IF ttl > validDuration THEN ttl ELSE validDuration

MaintTTL(t) ==
  /\ t.pc = "ttl"
  /\ \E ok \in Outcomes :
       /\ Charge(ok)
       /\ tasks' = Step(t, [t EXCEPT
            !.pc = "expire",
            !.userExp = IF ok THEN UserExp(RTTL(db, UserIdentifier(t.user), now), t.d)
                              ELSE t.d])
  /\ ret' = NoRet
  /\ UNCHANGED <<backend, creates, issued, now, db, rows>>
  /\ UNCHANGED uvars

MaintExpire(t) ==
  /\ t.pc = "expire"
  /\ \E ok \in Outcomes :
       /\ Charge(ok)
       /\ db' = IF ok THEN RExpire(db, UserIdentifier(t.user), t.userExp, now) ELSE db
  /\ tasks' = Step(t, [t EXCEPT !.pc = "smembers"])
  /\ ret' = NoRet
  /\ UNCHANGED <<backend, creates, issued, now, rows>>
  /\ UNCHANGED uvars

\* delUserKeys(userIdentifier, false), one store command to the step
SweepSMembers(t) ==
  /\ t.pc = "smembers"
  /\ \E ok \in Outcomes :
       /\ Charge(ok)
       /\ LET allUserKeys == RSMembers(db, UserIdentifier(t.user))
          IN tasks' = IF ~ok \/ allUserKeys = {}
                        THEN Finish(t)
                        ELSE Step(t, [t EXCEPT !.pc = "exists", !.all = allUserKeys])
  /\ ret' = NoRet
  /\ UNCHANGED <<backend, creates, issued, now, db, rows>>
  /\ UNCHANGED uvars

SweepExists(t) ==
  /\ t.pc = "exists"
  /\ \E userKey \in t.all : \E ok \in Outcomes :
       /\ Charge(ok)
       /\ LET rest == t.all \ {userKey}
              keysForDelete == IF ok /\ RExists(db, SessionName(userKey)) = 0
                                 THEN t.dels \cup {KeyForDelete(userKey, FALSE)}
                                 ELSE t.dels
          IN tasks' = IF rest = {} /\ keysForDelete = {}
                        THEN Finish(t)
                        ELSE Step(t, [t EXCEPT !.all = rest, !.dels = keysForDelete,
                                               !.pc = IF rest = {} THEN "del" ELSE "exists"])
  /\ ret' = NoRet
  /\ UNCHANGED <<backend, creates, issued, now, db, rows>>
  /\ UNCHANGED uvars

SweepDel(t) ==
  /\ t.pc = "del"
  /\ \E ok \in Outcomes :
       /\ Charge(ok)
       /\ db' = IF ok THEN RDel(db, t.dels) ELSE db
  /\ tasks' = Finish(t)
  /\ ret' = NoRet
  /\ UNCHANGED <<backend, creates, issued, now, rows>>
  /\ UNCHANGED uvars

\* --------------------------------------------------------------- the clock
Tick ==
  /\ now < MaxTime
  /\ now' = now + 1
  /\ db' = Purge(db, now + 1)
  /\ ret' = NoRet
  /\ UNCHANGED <<backend, creates, issued, rows, tasks, faults>>
  /\ UNCHANGED uvars

\* ------------------------------------------------------ SQLSessionHandler
\* one row of the session table; session_key is the primary key, created
\* and valid_until are DATETIME columns holding whole seconds
NoRow == [present |-> FALSE, user_id |-> 0, created |-> 0, valid_until |-> 0]

\* a time.Time bound to a DATETIME column
ToDatetime(t) == t \div Res

\* DefaultTimeFromScanType: the stored "2006-01-02 15:04:05" value as a time
DefaultTimeFromScanType(v) == Res * v

\* an insert that replaces the row of a key already there
CreateQReplace(r, u, k, created, validUntil) ==
  [ok |-> TRUE,
   rows |-> [r EXCEPT ![k] = [present |-> TRUE, user_id |-> u,
                              created |-> ToDatetime(created),
                              valid_until |-> ToDatetime(validUntil)]]]

\* CreateQ: INSERT INTO ... VALUES (?, ?, ?, ?); a second row with the same
\* primary key is refused
CreateQ(r, u, k, created, validUntil) ==
  IF r[k].present
    THEN [ok |-> FALSE, rows |-> r]
    ELSE [ok |-> TRUE,
          rows |-> [r EXCEPT ![k] = [present |-> TRUE, user_id |-> u,
                                     created |-> ToDatetime(created),
                                     valid_until |-> ToDatetime(validUntil)]]]

\* DeleteInvalidQ: DELETE FROM ... WHERE ? > valid_until
DeleteInvalidQ(r, t) ==
  {k \in SKeys : r[k].present /\ t > DefaultTimeFromScanType(r[k].valid_until)}

\* a delete for the user that leaves the rows past their valid_until
DeleteForUserQValid(r, u) ==
  {k \in SKeys : r[k].present /\ r[k].user_id = u
                   /\ DefaultTimeFromScanType(r[k].valid_until) > now}

\* DeleteForUserQ: DELETE FROM ... WHERE user_id = ?
DeleteForUserQ(r, u) == {k \in SKeys : r[k].present /\ r[k].user_id = u}

\* DeleteKeyQ: DELETE FROM ... WHERE session_key = ?
DeleteKeyQ(r, k) == {j \in SKeys : r[j].present /\ j = k}

DeleteRows(r, ks) == [k \in SKeys |-> IF k \in ks THEN NoRow ELSE r[k]]

\* a GetData that answers for a row past its valid_until as for no row
SQLGetDataExpiring(r, k) ==
  IF ~r[k].present \/ DefaultTimeFromScanType(r[k].valid_until) <= now
    THEN [err |-> "ErrKeyNotFound", data |-> NoData]
    ELSE [err |-> "nil",
          data |-> [User |-> r[k].user_id,
                    CreationTime |-> DefaultTimeFromScanType(r[k].created),
                    ValidUntil |-> DefaultTimeFromScanType(r[k].valid_until)]]

SQLGetData(r, k) ==
  IF ~r[k].present
    THEN [err |-> "ErrKeyNotFound", data |-> NoData]
    ELSE [err |-> "nil",
          data |-> [User |-> r[k].user_id,
                    CreationTime |-> DefaultTimeFromScanType(r[k].created),
                    ValidUntil |-> DefaultTimeFromScanType(r[k].valid_until)]]

\* the outcomes of a DELETE: Exec fails, RowsAffected fails, or both work
ExecOutcomes == IF Events < MaxEvents THEN {"ok", "execErr", "rowsErr"} ELSE {"ok"}

\* DB.Exec of a DELETE followed by RowsAffected
SQLDelete(op, u, k, ks) ==
  \E o \in ExecOutcomes :
    /\ Charge(o = "ok")
    /\ rows' = IF o = "execErr" THEN rows ELSE DeleteRows(rows, ks)
    /\ ret' = Ret(op, IF o = "execErr" THEN "StoreErr" ELSE "nil", u, k, 0, NoData,
                  IF o = "ok" THEN Cardinality(ks) ELSE -1)

SQLCreateEntry(u, k, d) ==
  /\ backend = "sql"
  /\ Events < MaxEvents
  /\ creates' = creates + 1
  /\ LET data == CurrentTimeKeyData(u, d, now)
         ins == CreateQ(rows, u, k, data.CreationTime, data.ValidUntil)
     IN \E ok \in CreateOutcomes :
          /\ Charge(ok)
          /\ IF ok /\ ins.ok
               THEN /\ rows' = ins.rows
                    /\ issued' = issued \cup {<<u, k>>}
                    /\ ret' = Ret("CreateEntry", "nil", u, k, d, data, 0)
               ELSE /\ ret' = Ret("CreateEntry", IF ok THEN "DuplicateKey" ELSE "StoreErr",
                                  u, k, d, NoData, 0)
                    /\ UNCHANGED <<rows, issued>>
  /\ UNCHANGED <<backend, now, db, tasks>>
  /\ UNCHANGED uvars

SQLGetDataCall(k) ==
  /\ backend = "sql"
  /\ \E ok \in Outcomes :
       /\ Charge(ok)
       /\ ret' = IF ok
                   THEN Ret("GetData", SQLGetData(rows, k).err, 0, k, 0, SQLGetData(rows, k).data, 0)
                   ELSE Ret("GetData", "StoreErr", 0, k, 0, NoData, 0)
  /\ UNCHANGED <<backend, creates, issued, now, db, rows, tasks>>
  /\ UNCHANGED uvars

SQLDeleteEntriesForUser(u) ==
  /\ backend = "sql"
  /\ SQLDelete("DeleteEntriesForUser", u, "", DeleteForUserQ(rows, u))
  /\ UNCHANGED <<backend, creates, issued, now, db, tasks>>
  /\ UNCHANGED uvars

SQLDeleteInvalidKeys ==
  /\ backend = "sql"
  /\ SQLDelete("DeleteInvalidKeys", 0, "", DeleteInvalidQ(rows, now))
  /\ UNCHANGED <<backend, creates, issued, now, db, tasks>>
  /\ UNCHANGED uvars

SQLDeleteKey(k) ==
  /\ backend = "sql"
  /\ \E ok \in Outcomes :
       /\ Charge(ok)
       /\ rows' = IF ok THEN DeleteRows(rows, DeleteKeyQ(rows, k)) ELSE rows
       /\ ret' = Ret("DeleteKey", IF ok THEN "nil" ELSE "StoreErr", 0, k, 0, NoData, 0)
  /\ UNCHANGED <<backend, creates, issued, now, db, tasks>>
  /\ UNCHANGED uvars

\* ============================================================ user handlers
UserNames == {"alice", "bob"}
Passwords == {"p", "q"}
\* the ids a handler can have handed out: Insert is called MaxEvents times
\* at most
Ids == 1..MaxEvents

\* PasswordHandler: GenerateHash(plainPW) and CheckPassword(hash, plainPW);
\* a mismatch is a false result, not an error
GenerateHash(pw) == [txt |-> "hash", val |-> pw]
CheckPassword(hash, pw) == hash.txt = "hash" /\ hash.val = pw

\* an id as decimal text, and strconv.ParseUint of such a text
IdText(id) == [txt |-> "num", val |-> ToString(id)]
ParseUint(s) ==
  IF s.txt = "num" /\ \E i \in 0..MaxEvents : ToString(i) = s.val
    THEN [ok |-> TRUE, id |-> CHOOSE i \in 0..MaxEvents : ToString(i) = s.val]
    ELSE [ok |-> FALSE, id |-> 0]

\* the result of a call of a user handler: the id and the user name it is
\* about and the password it was given
URet(op, err, id, name, pw) ==
  [NoRet EXCEPT !.op = op, !.err = err, !.user = id, !.key = name, !.pw = pw]

\* calls of RedisUserHandler.Insert in progress, as a bag; pc names the next
\* command
Calls == BagToSet(pending)
Start(c) == pending (+) SetToBag({c})
Move(c, c2) == (pending (-) SetToBag({c})) (+) SetToBag({c2})
Done(c) == pending (-) SetToBag({c})

\* --------------------------------------------------------- RedisUserHandler
\* udb.hash[name]: the hash at "user:<name>"; udb.idmap[id text]: the string
\* at "userID:<id>"; udb.nxt: the counter at "nxtUserid"
NoHash == [present |-> FALSE, id |-> NilText, username |-> "", firstName |-> "",
           lastName |-> "", email |-> "", is_active |-> "", last_login |-> NilText,
           password |-> NilText]
NoName == ""
IdTexts == {ToString(i) : i \in Ids}

UInsertFields(id, name, password, t) ==
  [present |-> TRUE, id |-> IdText(id), username |-> name, firstName |-> "first",
   lastName |-> "last", email |-> "mail", is_active |-> "1",
   last_login |-> RedisDateFormat(t), password |-> password]

\* the names of the keys in redis; the first part is the prefix
UKeys(u) ==
  {<<"user:", n>> : n \in {m \in UserNames : u.hash[m].present}}
    \cup {<<"userID:", i>> : i \in {j \in IdTexts : u.idmap[j] # NoName}}
    \cup (IF u.nxt > 0 THEN {<<"nxtUserid", "">>} ELSE {})

\* a scan pattern that also matches the id mapping keys
ScanMatchLoose(key) == key[1] \in {"user:", "userID:"}

\* SCAN with MATCH UserPrefix + "*"
ScanMatch(key) == key[1] = "user:"

\* an Insert that takes its id from the counter before it hashes the password
RedisInsertHashLate(name, pw) ==
  /\ backend = "redis"
  /\ Events < MaxEvents
  /\ creates' = creates + 1
  /\ \E encOk \in BOOLEAN :
       IF ~encOk
         THEN /\ UNCHANGED faults
              /\ ret' = URet("Insert", "EncErr", NoUserID, name, pw)
              /\ udb' = [udb EXCEPT !.nxt = @ + 1]
              /\ UNCHANGED pending
         ELSE /\ UNCHANGED udb
              /\ \E existsOk \in CreateOutcomes :
                   /\ Charge(existsOk)
                   /\ IF ~existsOk
                        THEN /\ ret' = URet("Insert", "StoreErr", NoUserID, name, pw)
                             /\ UNCHANGED pending
                        ELSE IF udb.hash[name].present
                          THEN /\ ret' = URet("Insert", "UsernameInUse", NoUserID, name, pw)
                               /\ UNCHANGED pending
                          ELSE /\ ret' = NoRet
                               /\ pending' = Start([pc |-> "incr", name |-> name, arg |-> pw,
                                                    password |-> GenerateHash(pw),
                                                    id |-> 0, at |-> now])
  /\ UNCHANGED <<backend, now, db, rows, tasks, issued, utab, mutex, procs>>

\* Insert up to its Exists; the call goes on with Incr when the name is free.
\* A failure of GenerateHash is none of the store
RedisInsert(name, pw) ==
  /\ backend = "redis"
  /\ Events < MaxEvents
  /\ creates' = creates + 1
  /\ \E encOk \in BOOLEAN :
       IF ~encOk
         THEN /\ UNCHANGED faults
              /\ ret' = URet("Insert", "EncErr", NoUserID, name, pw)
              /\ UNCHANGED pending
         ELSE \E existsOk \in CreateOutcomes :
                /\ Charge(existsOk)
                /\ IF ~existsOk
                     THEN /\ ret' = URet("Insert", "StoreErr", NoUserID, name, pw)
                          /\ UNCHANGED pending
                     ELSE IF udb.hash[name].present
                       THEN /\ ret' = URet("Insert", "UsernameInUse", NoUserID, name, pw)
                            /\ UNCHANGED pending
                       ELSE /\ ret' = NoRet
                            /\ pending' = Start([pc |-> "incr", name |-> name, arg |-> pw,
                                                 password |-> GenerateHash(pw),
                                                 id |-> 0, at |-> now])
  /\ UNCHANGED <<backend, now, db, rows, tasks, issued, udb, utab, mutex, procs>>

\* an Insert that reads the counter where the code increments it
RedisInsertIncrGet(c) ==
  /\ c.pc = "incr"
  /\ \E ok \in Outcomes :
       /\ Charge(ok)
       /\ IF ok
            THEN /\ pending' = Move(c, [c EXCEPT !.pc = "exec", !.id = udb.nxt + 1])
                 /\ ret' = NoRet
            ELSE /\ ret' = URet("Insert", "StoreErr", NoUserID, c.name, c.arg)
                 /\ pending' = Done(c)
  /\ UNCHANGED udb
  /\ UNCHANGED <<backend, now, db, rows, tasks, issued, creates, utab, mutex, procs>>

RedisInsertIncr(c) ==
  /\ c.pc = "incr"
  /\ \E ok \in Outcomes :
       /\ Charge(ok)
       /\ IF ok
            THEN /\ udb' = [udb EXCEPT !.nxt = @ + 1]
                 /\ pending' = Move(c, [c EXCEPT !.pc = "exec", !.id = udb.nxt + 1])
                 /\ ret' = NoRet
            ELSE /\ ret' = URet("Insert", "StoreErr", NoUserID, c.name, c.arg)
                 /\ pending' = Done(c)
                 /\ UNCHANGED udb
  /\ UNCHANGED <<backend, now, db, rows, tasks, issued, creates, utab, mutex, procs>>

\* the transaction: HMSet of the user hash and Set of the id mapping
RedisInsertExec(c) ==
  /\ c.pc = "exec"
  /\ \E ok \in Outcomes :
       /\ Charge(ok)
       /\ IF ok
            THEN /\ udb' = [udb EXCEPT
                      !.hash[c.name] = UInsertFields(c.id, c.name, c.password, c.at),
                      !.idmap[ToString(c.id)] = c.name]
                 /\ ret' = URet("Insert", "nil", c.id, c.name, c.arg)
            ELSE /\ ret' = URet("Insert", "StoreErr", NoUserID, c.name, c.arg)
                 /\ UNCHANGED udb
  /\ pending' = Done(c)
  /\ UNCHANGED <<backend, now, db, rows, tasks, issued, creates, utab, mutex, procs>>

\* a call that reads, or fails on its one store command
ReadCall(b, result, failed) ==
  /\ backend = b
  /\ \E ok \in Outcomes :
       /\ Charge(ok)
       /\ ret' = IF ok THEN result ELSE failed
  /\ UNCHANGED <<now, db, rows, tasks, issued, creates, udb, utab, pending, mutex, procs>>
  /\ UNCHANGED backend

\* a Validate that answers a wrong password with ErrUserNotFound
RedisValidateStrict(u, name, pw) ==
  LET h == u.hash[name]
      id == ParseUint(h.id)
  IN IF ~h.present \/ ~CheckPassword(h.password, pw)
       THEN [err |-> "ErrUserNotFound", id |-> NoUserID]
       ELSE [err |-> "nil", id |-> id.id]
RedisValidate(u, name, pw) ==
  LET h == u.hash[name]
      id == ParseUint(h.id)
  IN IF h.id = NilText THEN [err |-> "ErrUserNotFound", id |-> NoUserID]
     ELSE IF h.password.txt = "nil" THEN [err |-> "WeirdType", id |-> NoUserID]
     ELSE IF ~CheckPassword(h.password, pw) THEN [err |-> "nil", id |-> NoUserID]
     ELSE IF ~id.ok THEN [err |-> "ParseErr", id |-> NoUserID]
     ELSE [err |-> "nil", id |-> id.id]

RedisValidateCall(name, pw) ==
  ReadCall("redis",
           URet("Validate", RedisValidate(udb, name, pw).err, RedisValidate(udb, name, pw).id, name, pw),
           URet("Validate", "StoreErr", NoUserID, name, pw))

\* UpdatePassword up to its Exists; the call goes on with HMSet when the key
\* exists.  One UpdatePassword is in progress at a time
RedisUpdatePassword(name, pw) ==
  /\ backend = "redis"
  /\ \A c \in Calls : c.pc # "hmset"
  /\ \E encOk, existsOk \in Outcomes :
       LET err == IF ~encOk THEN "EncErr"
                  ELSE IF ~existsOk THEN "StoreErr"
                  ELSE IF ~udb.hash[name].present THEN "ErrUserNotFound"
                  ELSE "nil"
       IN /\ Charge(err \notin {"EncErr", "StoreErr"})
          /\ IF err = "nil"
               THEN /\ ret' = NoRet
                    /\ pending' = Start([pc |-> "hmset", name |-> name, arg |-> pw,
                                         password |-> GenerateHash(pw),
                                         id |-> 0, at |-> now])
               ELSE /\ ret' = URet("UpdatePassword", err, 0, name, pw)
                    /\ UNCHANGED pending
  /\ UNCHANGED <<backend, now, db, rows, tasks, issued, creates, udb, utab, mutex, procs>>

\* HMSet of the field "password": on a key that is gone it makes a new hash
\* with that one field
RedisUpdatePasswordSet(c) ==
  /\ c.pc = "hmset"
  /\ \E ok \in Outcomes :
       /\ Charge(ok)
       /\ udb' = IF ok
                   THEN [udb EXCEPT !.hash[c.name].present = TRUE,
                                    !.hash[c.name].password = c.password]
                   ELSE udb
       /\ ret' = URet("UpdatePassword", IF ok THEN "nil" ELSE "StoreErr", 0, c.name, c.arg)
  /\ pending' = Done(c)
  /\ UNCHANGED <<backend, now, db, rows, tasks, issued, creates, utab, mutex, procs>>

\* ListUsers: HMGet "id", "username" on every key the scan returns
RedisListUsers(u) ==
  LET keys == {k \in UKeys(u) : ScanMatch(k)}
      entry(k) == u.hash[k[2]]
  IN IF \E k \in keys : k[1] # "user:" THEN [err |-> "WrongType", users |-> {}]
     ELSE IF \E k \in keys : entry(k).id = NilText THEN [err |-> "NoUserInfo", users |-> {}]
     ELSE IF \E k \in keys : ~ParseUint(entry(k).id).ok THEN [err |-> "ParseErr", users |-> {}]
     ELSE [err |-> "nil",
           users |-> {<<ParseUint(entry(k).id).id, entry(k).username>> : k \in keys}]

RedisListUsersCall ==
  ReadCall("redis",
           [URet("ListUsers", RedisListUsers(udb).err, 0, "", "") EXCEPT !.users = RedisListUsers(udb).users],
           [URet("ListUsers", "StoreErr", 0, "", "") EXCEPT !.users = {}])

RedisGetUserName(id) ==
  ReadCall("redis",
           IF udb.idmap[ToString(id)] = NoName
             THEN [URet("GetUserName", "ErrUserNotFound", id, "", "") EXCEPT !.name = ""]
             ELSE [URet("GetUserName", "nil", id, "", "") EXCEPT !.name = udb.idmap[ToString(id)]],
           [URet("GetUserName", "StoreErr", id, "", "") EXCEPT !.name = ""])

\* a DeleteUser whose transaction deletes the user hash only
RedisDeleteUserKeepMapping(name) ==
  /\ backend = "redis"
  /\ \E getOk, delOk \in Outcomes :
       LET h == udb.hash[name]
           err == IF ~getOk THEN "StoreErr"
                  ELSE IF h.id = NilText THEN "nil"
                  ELSE IF ~delOk THEN "StoreErr"
                  ELSE "nil"
       IN /\ Charge(err = "nil")
          /\ udb' = IF err = "nil" /\ h.id # NilText
                      THEN [udb EXCEPT !.hash[name] = NoHash]
                      ELSE udb
          /\ ret' = URet("DeleteUser", err, 0, name, "")
  /\ UNCHANGED <<backend, now, db, rows, tasks, issued, creates, utab, pending, mutex, procs>>

\* DeleteUser: HMGet "id", then the transaction that deletes the user hash
\* and the id mapping
RedisDeleteUser(name) ==
  /\ backend = "redis"
  /\ \E getOk, delOk \in Outcomes :
       LET h == udb.hash[name]
           err == IF ~getOk THEN "StoreErr"
                  ELSE IF h.id = NilText THEN "nil"
                  ELSE IF ~delOk THEN "StoreErr"
                  ELSE "nil"
       IN /\ Charge(err = "nil")
          /\ udb' = IF err = "nil" /\ h.id # NilText
                      THEN [udb EXCEPT !.hash[name] = NoHash, !.idmap[h.id.val] = NoName]
                      ELSE udb
          /\ ret' = URet("DeleteUser", err, 0, name, "")
  /\ UNCHANGED <<backend, now, db, rows, tasks, issued, creates, utab, pending, mutex, procs>>

\* strconv.ParseBool
ParseBool(s) ==
  IF s \in {"1", "t", "T", "TRUE", "true", "True"} THEN [ok |-> TRUE, b |-> TRUE]
  ELSE IF s \in {"0", "f", "F", "FALSE", "false", "False"} THEN [ok |-> TRUE, b |-> FALSE]
  ELSE [ok |-> FALSE, b |-> FALSE]

RedisGetUserBaseInfo(u, name) ==
  LET h == u.hash[name]
      id == ParseUint(h.id)
      isActive == ParseBool(h.is_active)
      lastLogin == ParseTime(h.last_login)
  IN IF h.id = NilText \/ h.last_login = NilText
       THEN [err |-> "ErrUserNotFound", info |-> NoInfo]
     ELSE IF ~id.ok \/ ~isActive.ok \/ ~lastLogin.ok THEN [err |-> "ParseErr", info |-> NoInfo]
     ELSE [err |-> "nil",
           info |-> [ID |-> id.id, UserName |-> name, FirstName |-> h.firstName,
                     LastName |-> h.lastName, Email |-> h.email,
                     LastLogin |-> lastLogin.t, IsActive |-> isActive.b]]

RedisGetUserBaseInfoCall(name) ==
  ReadCall("redis",
           [URet("GetUserBaseInfo", RedisGetUserBaseInfo(udb, name).err, 0, name, "") EXCEPT !.info = RedisGetUserBaseInfo(udb, name).info],
           [URet("GetUserBaseInfo", "StoreErr", 0, name, "") EXCEPT !.info = NoInfo])

RedisGetUserID(u, name) ==
  LET h == u.hash[name]
      id == ParseUint(h.id)
  IN IF h.id = NilText THEN [err |-> "ErrUserNotFound", id |-> NoUserID]
     ELSE IF ~id.ok THEN [err |-> "ParseErr", id |-> NoUserID]
     ELSE [err |-> "nil", id |-> id.id]

RedisGetUserIDCall(name) ==
  ReadCall("redis",
           URet("GetUserID", RedisGetUserID(udb, name).err, RedisGetUserID(udb, name).id, name, ""),
           URet("GetUserID", "StoreErr", NoUserID, name, ""))

\* ----------------------------------------------------------- SQLUserHandler
\* the users table: one row to the username (UNIQUE), id SERIAL
NoURow == [present |-> FALSE, id |-> 0, username |-> "", first_name |-> "",
           last_name |-> "", email |-> "", password |-> NilText,
           is_active |-> FALSE, last_login |-> 0]

\* an INSERT into a table without UNIQUE(username): the row of the name is
\* written again
InsertQueryReplace(t, name, password, at) ==
  [ok |-> TRUE,
   tab |-> [rows |-> [t.rows EXCEPT ![name] =
                        [present |-> TRUE, id |-> t.serial + 1, username |-> name,
                         first_name |-> "first", last_name |-> "last",
                         email |-> "mail", password |-> password,
                         is_active |-> TRUE, last_login |-> ToDatetime(at)]],
            serial |-> t.serial + 1]]
\* InsertQuery: INSERT INTO users (...) VALUES (...); a second row with the
\* same username is refused
InsertQuery(t, name, password, at) ==
  IF t.rows[name].present
    THEN [ok |-> FALSE, tab |-> t]
    ELSE [ok |-> TRUE,
          tab |-> [rows |-> [t.rows EXCEPT ![name] =
                               [present |-> TRUE, id |-> t.serial + 1, username |-> name,
                                first_name |-> "first", last_name |-> "last",
                                email |-> "mail", password |-> password,
                                is_active |-> TRUE, last_login |-> ToDatetime(at)]],
                   serial |-> t.serial + 1]]

\* Insert: GenerateHash, Exec of InsertQuery, LastInsertId; a refused INSERT
\* may or may not use up a value of the SERIAL column
SQLInsert(name, pw) ==
  /\ backend = "sql"
  /\ Events < MaxEvents
  /\ creates' = creates + 1
  /\ \E encOk \in BOOLEAN, execOk, idOk \in CreateOutcomes, gap \in BOOLEAN :
       LET ins == InsertQuery(utab, name, GenerateHash(pw), now)
           err == IF ~encOk THEN "EncErr"
                  ELSE IF ~execOk THEN "StoreErr"
                  ELSE IF ~ins.ok THEN "DuplicateEntry"
                  ELSE "nil"
       IN /\ Charge(err # "StoreErr" /\ (err = "nil" => idOk))
          /\ utab' = IF err = "nil" THEN ins.tab
                     ELSE IF err = "DuplicateEntry" /\ gap
                       THEN [utab EXCEPT !.serial = @ + 1]
                     ELSE utab
          /\ ret' = URet("Insert", err, IF err = "nil" /\ idOk THEN ins.tab.serial ELSE NoUserID, name, pw)
  /\ UNCHANGED <<backend, now, db, rows, tasks, issued, udb, pending, mutex, procs>>

\* ValidateQuery: SELECT id, password FROM users WHERE username = ?
SQLValidate(t, name, pw) ==
  LET row == t.rows[name]
  IN IF ~row.present THEN [err |-> "ErrUserNotFound", id |-> NoUserID]
     ELSE IF ~CheckPassword(row.password, pw) THEN [err |-> "nil", id |-> NoUserID]
     ELSE [err |-> "nil", id |-> row.id]

\* a Validate that stamps last_login when the password matched
SQLValidateCallLogin(name, pw) ==
  /\ backend = "sql"
  /\ \E ok \in Outcomes :
       /\ Charge(ok)
       /\ ret' = IF ok
                   THEN URet("Validate", SQLValidate(utab, name, pw).err, SQLValidate(utab, name, pw).id, name, pw)
                   ELSE URet("Validate", "StoreErr", NoUserID, name, pw)
       /\ utab' = IF ok /\ SQLValidate(utab, name, pw).id # NoUserID
                    THEN [utab EXCEPT !.rows[name].last_login = ToDatetime(now)]
                    ELSE utab
  /\ UNCHANGED <<backend, now, db, rows, tasks, issued, creates, udb, pending, mutex, procs>>

SQLValidateCall(name, pw) ==
  ReadCall("sql",
           URet("Validate", SQLValidate(utab, name, pw).err, SQLValidate(utab, name, pw).id, name, pw),
           URet("Validate", "StoreErr", NoUserID, name, pw))

\* UpdatePasswordQuery: UPDATE users SET password=? WHERE username=?
UpdatePasswordQuery(t, password, name) ==
  IF t.rows[name].present THEN [t EXCEPT !.rows[name].password = password] ELSE t

SQLUpdatePassword(name, pw) ==
  /\ backend = "sql"
  /\ \E encOk, execOk \in Outcomes :
       LET err == IF ~encOk THEN "EncErr" ELSE IF ~execOk THEN "StoreErr" ELSE "nil"
       IN /\ Charge(err = "nil")
          /\ utab' = IF err = "nil" THEN UpdatePasswordQuery(utab, GenerateHash(pw), name)
                                    ELSE utab
          /\ ret' = URet("UpdatePassword", err, 0, name, pw)
  /\ UNCHANGED <<backend, now, db, rows, tasks, issued, creates, udb, pending, mutex, procs>>

\* ListUsersQuery: SELECT id, username FROM users
ListUsersQuery(t) ==
  {<<t.rows[n].id, t.rows[n].username>> : n \in {m \in UserNames : t.rows[m].present}}

SQLListUsers ==
  ReadCall("sql",
           [URet("ListUsers", "nil", 0, "", "") EXCEPT !.users = ListUsersQuery(utab)],
           [URet("ListUsers", "StoreErr", 0, "", "") EXCEPT !.users = {}])

\* GetUsernameQ: SELECT username FROM users WHERE id=?
GetUsernameQ(t, id) == {n \in UserNames : t.rows[n].present /\ t.rows[n].id = id}

SQLGetUserName(id) ==
  ReadCall("sql",
           IF GetUsernameQ(utab, id) = {}
             THEN [URet("GetUserName", "ErrUserNotFound", id, "", "") EXCEPT !.name = ""]
             ELSE [URet("GetUserName", "nil", id, "", "") EXCEPT !.name = CHOOSE n \in GetUsernameQ(utab, id) : TRUE],
           [URet("GetUserName", "StoreErr", id, "", "") EXCEPT !.name = ""])

\* DeleteUserQ: DELETE FROM users WHERE username=?
DeleteUserQ(t, name) == [t EXCEPT !.rows[name] = NoURow]

SQLDeleteUser(name) ==
  /\ backend = "sql"
  /\ \E ok \in Outcomes :
       /\ Charge(ok)
       /\ utab' = IF ok THEN DeleteUserQ(utab, name) ELSE utab
       /\ ret' = URet("DeleteUser", IF ok THEN "nil" ELSE "StoreErr", 0, name, "")
  /\ UNCHANGED <<backend, now, db, rows, tasks, issued, creates, udb, pending, mutex, procs>>

\* GetIDQuery: SELECT id FROM users WHERE username=?
SQLGetUserID(name) ==
  ReadCall("sql",
           IF utab.rows[name].present
             THEN URet("GetUserID", "nil", utab.rows[name].id, name, "")
             ELSE URet("GetUserID", "ErrUserNotFound", NoUserID, name, ""),
           URet("GetUserID", "StoreErr", NoUserID, name, ""))

\* GetUserInfoQuery: SELECT id, first_name, last_name, email, is_active,
\* last_login FROM users WHERE username=?
SQLGetUserBaseInfo(t, name) ==
  LET row == t.rows[name]
  IN IF ~row.present THEN [err |-> "ErrUserNotFound", info |-> NoInfo]
     ELSE [err |-> "nil",
           info |-> [ID |-> row.id, UserName |-> name, FirstName |-> row.first_name,
                     LastName |-> row.last_name, Email |-> row.email,
                     LastLogin |-> DefaultTimeFromScanType(row.last_login),
                     IsActive |-> row.is_active]]

SQLGetUserBaseInfoCall(name) ==
  ReadCall("sql",
           [URet("GetUserBaseInfo", SQLGetUserBaseInfo(utab, name).err, 0, name, "") EXCEPT !.info = SQLGetUserBaseInfo(utab, name).info],
           [URet("GetUserBaseInfo", "StoreErr", 0, name, "") EXCEPT !.info = NoInfo])

\* ------------------------------------------- the mutex of the SQL handlers
\* (blockDB set)  the operations of the two handlers: the lock each takes
\* before its database call, and whether that call changes the database
Handlers == {"session", "users"}
Callers == {1, 2}

SQLOp(h, op, lock, writes) == [h |-> h, op |-> op, lock |-> lock, writes |-> writes]

SQLOps ==
  { SQLOp("session", "Init", "Lock", TRUE),
    SQLOp("session", "GetData", "RLock", FALSE),
    SQLOp("session", "CreateEntry", "Lock", TRUE),
    SQLOp("session", "DeleteEntriesForUser", "Lock", TRUE),
    SQLOp("session", "DeleteInvalidKeys", "Lock", TRUE),
    SQLOp("session", "DeleteKey", "Lock", TRUE),
    SQLOp("users", "Init", "Lock", TRUE),
    SQLOp("users", "Insert", "Lock", TRUE),
    SQLOp("users", "Validate", "RLock", FALSE),
    SQLOp("users", "UpdatePassword", "Lock", TRUE),
    SQLOp("users", "ListUsers", "RLock", FALSE),
    SQLOp("users", "GetUserName", "RLock", FALSE),
    SQLOp("users", "DeleteUser", "Lock", TRUE),
    SQLOp("users", "GetUserID", "RLock", FALSE),
    SQLOp("users", "GetUserBaseInfo", "none", FALSE) }

Idle == [pc |-> "idle", o |-> SQLOp("", "", "none", FALSE)]
Free == [writer |-> 0, readers |-> {}]

\* where an operation calls the PasswordHandler: "first" is GenerateHash
\* ahead of the lock (Insert, UpdatePassword), "row" is CheckPassword on the
\* row Validate has scanned
HashCall(o) ==
  IF o.h = "users" /\ o.op \in {"Insert", "UpdatePassword"} THEN "first"
  ELSE IF o.h = "users" /\ o.op = "Validate" THEN "row"
  ELSE "none"

\* Insert / UpdatePassword begin: PwHandler.GenerateHash is running
HashEnter(c, o) ==
  /\ backend = "sql"
  /\ procs[c].pc = "idle"
  /\ HashCall(o) = "first"
  /\ procs' = [procs EXCEPT ![c] = [pc |-> "hash", o |-> o]]
  /\ UNCHANGED <<backend, now, db, rows, tasks, faults, creates, issued, ret,
                 udb, utab, pending, mutex>>

\* GenerateHash returned an error: the operation returns it
HashFailed(c) ==
  /\ procs[c].pc = "hash"
  /\ procs' = [procs EXCEPT ![c] = Idle]
  /\ UNCHANGED <<backend, now, db, rows, tasks, faults, creates, issued, ret,
                 udb, utab, pending, mutex>>

\* mutex.Lock() / mutex.RLock() as the operation has it, then the database
\* call begins
LockEnter(c, o) ==
  /\ backend = "sql"
  /\ IF HashCall(o) = "first"
       THEN procs[c].pc = "hash" /\ procs[c].o = o
       ELSE procs[c].pc = "idle"
  /\ CASE o.lock = "Lock" ->
            /\ mutex[o.h] = Free
            /\ mutex' = [mutex EXCEPT ![o.h].writer = c]
       [] o.lock = "RLock" ->
            /\ mutex[o.h].writer = 0
            /\ mutex' = [mutex EXCEPT ![o.h].readers = @ \cup {c}]
       [] OTHER -> UNCHANGED mutex
  /\ procs' = [procs EXCEPT ![c] = [pc |-> "db", o |-> o]]
  /\ UNCHANGED <<backend, now, db, rows, tasks, faults, creates, issued, ret,
                 udb, utab, pending>>

\* Validate: row.Scan gave the row, PwHandler.CheckPassword is running
ValidateCheck(c) ==
  /\ procs[c].pc = "db"
  /\ HashCall(procs[c].o) = "row"
  /\ procs' = [procs EXCEPT ![c].pc = "check"]
  /\ UNCHANGED <<backend, now, db, rows, tasks, faults, creates, issued, ret,
                 udb, utab, pending, mutex>>

\* the operation returns; the deferred Unlock() / RUnlock()
LockLeave(c) ==
  /\ procs[c].pc \in {"db", "check"}
  /\ mutex' = [mutex EXCEPT
       ![procs[c].o.h] = [writer |-> IF @.writer = c THEN 0 ELSE @.writer,
                          readers |-> @.readers \ {c}]]
  /\ procs' = [procs EXCEPT ![c] = Idle]
  /\ UNCHANGED <<backend, now, db, rows, tasks, faults, creates, issued, ret,
                 udb, utab, pending>>

\* ------------------------------------------------- user handlers at start
UInit ==
  /\ udb = [hash |-> [n \in UserNames |-> NoHash],
            idmap |-> [i \in IdTexts |-> NoName],
            nxt |-> 0]
  /\ utab = [rows |-> [n \in UserNames |-> NoURow], serial |-> 0]
  /\ pending = EmptyBag
  /\ mutex = [h \in Handlers |-> Free]
  /\ procs = [c \in Callers |-> Idle]

\* ------------------------------------------------------ the specification
Init ==
  /\ backend \in Backends
  /\ now = 0
  /\ db = [n \in Names |-> Nil]
  /\ rows = [k \in SKeys |-> NoRow]
  /\ tasks = EmptyBag
  /\ faults = 0
  /\ creates = 0
  /\ issued = {}
  /\ ret = NoRet
  /\ UInit

\* CreateEntry calls may overlap: a call may start while goroutines of earlier
\* calls are in flight
Next ==
  \/ \E u \in Users, k \in SKeys, d \in Durations : RedisCreateEntry(u, k, d)
  \/ \E k \in SKeys : RedisGetDataCall(k)
  \/ \E k \in SKeys : RedisDeleteKey(k)
  \/ \E u \in Users : RedisDeleteEntriesForUser(u)
  \/ RedisDeleteInvalidKeys
  \/ \E t \in Running : MaintSAdd(t)
  \/ \E t \in Running : MaintTTL(t)
  \/ \E t \in Running : MaintExpire(t)
  \/ \E t \in Running : SweepSMembers(t)
  \/ \E t \in Running : SweepExists(t)
  \/ \E t \in Running : SweepDel(t)
  \/ \E u \in Users, k \in SKeys, d \in Durations : SQLCreateEntry(u, k, d)
  \/ \E k \in SKeys : SQLGetDataCall(k)
  \/ \E u \in Users : SQLDeleteEntriesForUser(u)
  \/ SQLDeleteInvalidKeys
  \/ \E k \in SKeys : SQLDeleteKey(k)
  \/ Tick

Spec == Init /\ [][Next]_vars

\* one login at a time: CreateEntry is called when the goroutine of the
\* previous call has finished
NextSerial ==
  \/ \E u \in Users, k \in SKeys, d \in Durations :
       tasks = EmptyBag /\ RedisCreateEntry(u, k, d)
  \/ \E k \in SKeys : RedisGetDataCall(k)
  \/ \E k \in SKeys : RedisDeleteKey(k)
  \/ \E u \in Users : RedisDeleteEntriesForUser(u)
  \/ RedisDeleteInvalidKeys
  \/ \E t \in Running : MaintSAdd(t)
  \/ \E t \in Running : MaintTTL(t)
  \/ \E t \in Running : MaintExpire(t)
  \/ \E t \in Running : SweepSMembers(t)
  \/ \E t \in Running : SweepExists(t)
  \/ \E t \in Running : SweepDel(t)
  \/ \E u \in Users, k \in SKeys, d \in Durations : SQLCreateEntry(u, k, d)
  \/ \E k \in SKeys : SQLGetDataCall(k)
  \/ \E u \in Users : SQLDeleteEntriesForUser(u)
  \/ SQLDeleteInvalidKeys
  \/ \E k \in SKeys : SQLDeleteKey(k)
  \/ Tick

SpecSerial == Init /\ [][NextSerial]_vars

\* no call beside a goroutine: every call waits until the goroutine of the
\* last CreateEntry has finished
NextQuiet ==
  \/ \E u \in Users, k \in SKeys, d \in Durations :
       tasks = EmptyBag /\ RedisCreateEntry(u, k, d)
  \/ \E k \in SKeys : tasks = EmptyBag /\ RedisGetDataCall(k)
  \/ \E k \in SKeys : tasks = EmptyBag /\ RedisDeleteKey(k)
  \/ \E u \in Users : tasks = EmptyBag /\ RedisDeleteEntriesForUser(u)
  \/ tasks = EmptyBag /\ RedisDeleteInvalidKeys
  \/ \E t \in Running : MaintSAdd(t)
  \/ \E t \in Running : MaintTTL(t)
  \/ \E t \in Running : MaintExpire(t)
  \/ \E t \in Running : SweepSMembers(t)
  \/ \E t \in Running : SweepExists(t)
  \/ \E t \in Running : SweepDel(t)
  \/ \E u \in Users, k \in SKeys, d \in Durations : SQLCreateEntry(u, k, d)
  \/ \E k \in SKeys : SQLGetDataCall(k)
  \/ \E u \in Users : SQLDeleteEntriesForUser(u)
  \/ SQLDeleteInvalidKeys
  \/ \E k \in SKeys : SQLDeleteKey(k)
  \/ Tick

SpecQuiet == Init /\ [][NextQuiet]_vars

\* ------------------------------------------- the user handlers in use
\* Insert calls of the redis handler may overlap each other and other calls
NextUsers ==
  \/ \E n \in UserNames, pw \in Passwords : RedisInsert(n, pw)
  \/ \E c \in Calls : RedisInsertIncr(c)
  \/ \E c \in Calls : RedisInsertExec(c)
  \/ \E n \in UserNames, pw \in Passwords : RedisValidateCall(n, pw)
  \/ \E n \in UserNames, pw \in Passwords : RedisUpdatePassword(n, pw)
  \/ \E c \in Calls : RedisUpdatePasswordSet(c)
  \/ RedisListUsersCall
  \/ \E id \in Ids : RedisGetUserName(id)
  \/ \E n \in UserNames : RedisDeleteUser(n)
  \/ \E n \in UserNames : RedisGetUserBaseInfoCall(n)
  \/ \E n \in UserNames : RedisGetUserIDCall(n)
  \/ \E n \in UserNames, pw \in Passwords : SQLInsert(n, pw)
  \/ \E n \in UserNames, pw \in Passwords : SQLValidateCall(n, pw)
  \/ \E n \in UserNames, pw \in Passwords : SQLUpdatePassword(n, pw)
  \/ SQLListUsers
  \/ \E id \in Ids : SQLGetUserName(id)
  \/ \E n \in UserNames : SQLDeleteUser(n)
  \/ \E n \in UserNames : SQLGetUserBaseInfoCall(n)
  \/ \E n \in UserNames : SQLGetUserID(n)
  \/ Tick

SpecUsers == Init /\ [][NextUsers]_vars

\* one call at a time: a call starts when no Insert is in progress
NextUsersQuiet ==
  \/ \E n \in UserNames, pw \in Passwords : pending = EmptyBag /\ RedisInsert(n, pw)
  \/ \E c \in Calls : RedisInsertIncr(c)
  \/ \E c \in Calls : RedisInsertExec(c)
  \/ \E n \in UserNames, pw \in Passwords : pending = EmptyBag /\ RedisValidateCall(n, pw)
  \/ \E n \in UserNames, pw \in Passwords : pending = EmptyBag /\ RedisUpdatePassword(n, pw)
  \/ \E c \in Calls : RedisUpdatePasswordSet(c)
  \/ pending = EmptyBag /\ RedisListUsersCall
  \/ \E id \in Ids : pending = EmptyBag /\ RedisGetUserName(id)
  \/ \E n \in UserNames : pending = EmptyBag /\ RedisDeleteUser(n)
  \/ \E n \in UserNames : pending = EmptyBag /\ RedisGetUserBaseInfoCall(n)
  \/ \E n \in UserNames : pending = EmptyBag /\ RedisGetUserIDCall(n)
  \/ \E n \in UserNames, pw \in Passwords : SQLInsert(n, pw)
  \/ \E n \in UserNames, pw \in Passwords : SQLValidateCall(n, pw)
  \/ \E n \in UserNames, pw \in Passwords : SQLUpdatePassword(n, pw)
  \/ SQLListUsers
  \/ \E id \in Ids : SQLGetUserName(id)
  \/ \E n \in UserNames : SQLDeleteUser(n)
  \/ \E n \in UserNames : SQLGetUserBaseInfoCall(n)
  \/ \E n \in UserNames : SQLGetUserID(n)
  \/ Tick

SpecUsersQuiet == Init /\ [][NextUsersQuiet]_vars

\* the redis user handler with Insert and DeleteUser calls only, the Inserts
\* interleaving command by command
NextInserts ==
  \/ \E n \in UserNames, pw \in Passwords : RedisInsert(n, pw)
  \/ \E c \in Calls : RedisInsertIncr(c)
  \/ \E c \in Calls : RedisInsertExec(c)
  \/ \E n \in UserNames : RedisDeleteUser(n)

SpecInserts == Init /\ [][NextInserts]_vars

\* the durations a caller can pass to CreateEntry: zero and a negative one
\* among them
AnyDurations == {-1 * Res, 0, 1 * Res}

\* CreateEntry with any duration, the goroutines of the redis handler
\* overlapping, and GetData
NextDurations ==
  \/ \E u \in Users, k \in SKeys, d \in AnyDurations : RedisCreateEntry(u, k, d)
  \/ \E k \in SKeys : RedisGetDataCall(k)
  \/ \E t \in Running : MaintSAdd(t)
  \/ \E t \in Running : MaintTTL(t)
  \/ \E t \in Running : MaintExpire(t)
  \/ \E t \in Running : SweepSMembers(t)
  \/ \E t \in Running : SweepExists(t)
  \/ \E t \in Running : SweepDel(t)
  \/ \E u \in Users, k \in SKeys, d \in AnyDurations : SQLCreateEntry(u, k, d)
  \/ \E k \in SKeys : SQLGetDataCall(k)
  \/ Tick

SpecDurations == Init /\ [][NextDurations]_vars

\* callers of the SQL handlers built with blockDB set
NextLock ==
  \/ \E c \in Callers, o \in SQLOps : HashEnter(c, o)
  \/ \E c \in Callers : HashFailed(c)
  \/ \E c \in Callers, o \in SQLOps : LockEnter(c, o)
  \/ \E c \in Callers : ValidateCheck(c)
  \/ \E c \in Callers : LockLeave(c)

SpecLock == Init /\ [][NextLock]_vars

\* ------------------------------------ GetData on whatever redis may hold
\* a text that is neither a decimal number nor a timestamp
JunkText == [txt |-> "junk", val |-> "x"]
StoredTexts == {UserText(1), RedisDateFormat(0), JunkText}

\* the hashes a session name may hold: some of the three fields, each with
\* any text; no field at all means there is no such key
StoredHashes ==
  UNION {[fs -> StoredTexts] : fs \in SUBSET {"User", "CreationTime", "ValidUntil"}}

StoredKey(h) ==
  IF DOMAIN h = {} THEN Nil
  ELSE [type |-> "hash", fields |-> h, members |-> {}, exp |-> NoExp]

InitStored ==
  /\ backend = "redis"
  /\ now = 0
  /\ \E h \in [SKeys -> StoredHashes] :
       db = [n \in Names |-> IF n[1] = SessionPrefix THEN StoredKey(h[n[2]]) ELSE Nil]
  /\ rows = [k \in SKeys |-> NoRow]
  /\ tasks = EmptyBag
  /\ faults = 0
  /\ creates = 0
  /\ issued = {}
  /\ ret = NoRet
  /\ UInit

NextStored == \E k \in SKeys : RedisGetDataCall(k)

SpecStored == InitStored /\ [][NextStored]_vars

\* =================================================================== claims
\* GetData of the handler in use, on the store as it is and as it will be
GetDataNow(k) == IF backend = "redis" THEN RedisGetData(db, k) ELSE SQLGetData(rows, k)
GetDataNext(k) == IF backend = "redis" THEN RedisGetData(db', k) ELSE SQLGetData(rows', k)

Quiescent == tasks = EmptyBag
UserSet(u) == RSMembers(db, UserIdentifier(u))
HasRecord(k) == RExists(db, SessionName(k)) = 1

\* C1: redis: once DeleteEntriesForUser(u) has returned without error, with
\* all index maintenance finished and no store failure, GetData returns
\* ErrKeyNotFound for every key issued to u.
C1_RevokeAllRedis ==
  (backend = "redis" /\ ret.op = "DeleteEntriesForUser" /\ ret.err = "nil"
     /\ Quiescent /\ faults = 0)
    => \A k \in SKeys : <<ret.user, k>> \in issued => GetDataNow(k).err = "ErrKeyNotFound"

\* C2: redis: in every reachable state every session record that exists for
\* a user has its key in that user's set.
C2_IndexCoversRecords ==
  backend = "redis" =>
    \A k \in SKeys : GetDataNow(k).err = "nil" => k \in UserSet(GetDataNow(k).data.User)

\* C3: redis: after CreateEntry calls with distinct keys for one user, under
\* every interleaving of their maintenance, once all maintenance has finished
\* (no store failure) the user's set holds every issued key whose record
\* still exists.
C3_ConcurrentCreatesIndexed ==
  (backend = "redis" /\ Quiescent /\ faults = 0 /\ Cardinality(issued) = creates
     /\ \E u \in Users : \A p \in issued : p[1] = u)
    => \A p \in issued : HasRecord(p[2]) => p[2] \in UserSet(p[1])

\* C4: redis: when the sweep of a maintenance goroutine ends with its delete,
\* with no call running beside it and no store failure, the keys it found to
\* have no session record are no longer in the user's set.
C4_SweepRemovesDead ==
  [][\A t \in Running :
       (SweepDel(t) /\ faults' = 0)
         => \A k \in SKeys :
              SessionName(k) \in t.dels => k \notin RSMembers(db', UserIdentifier(t.user))]_vars

\* C5: redis: a maintenance goroutine's Expire never moves the expiry of the
\* user's set to an earlier time, under every interleaving of the TTL reads
\* and Expire writes of concurrent goroutines (no store failure).
C5_SetTTLNeverShrinks ==
  [][\A t \in Running :
       (MaintExpire(t) /\ faults' = 0 /\ db[UserIdentifier(t.user)].exp # NoExp)
         => /\ db'[UserIdentifier(t.user)].type = "set"
            /\ db'[UserIdentifier(t.user)].exp >= db[UserIdentifier(t.user)].exp]_vars

\* C6: redis: CreateEntry on a key that has a session record returns an error
\* and leaves the record as it was.
C6_DuplicateKeyRedis ==
  [][\A k \in SKeys :
       (backend = "redis" /\ ret'.op = "CreateEntry" /\ ret'.key = k /\ HasRecord(k))
         => /\ ret'.err # "nil"
            /\ db'[SessionName(k)] = db[SessionName(k)]]_vars

C8_DeleteKeyIdempotent ==
  [][\A k \in SKeys :
       (ret'.op = "DeleteKey" /\ ret'.key = k /\ faults' = faults)
         => /\ ret'.err = "nil"
            /\ GetDataNext(k).err = "ErrKeyNotFound"
            /\ \A n \in Names \ {SessionName(k)} : db'[n] = db[n]
            /\ \A j \in SKeys \ {k} : rows'[j] = rows[j]
            /\ GetDataNow(k).err = "ErrKeyNotFound" => (db' = db /\ rows' = rows)]_vars

\* DeleteKey has removed one session while another one is still stored
C8_Witness ==
  /\ ret.op = "DeleteKey" /\ ret.err = "nil"
  /\ \E u \in Users : <<u, ret.key>> \in issued
  /\ GetDataNow(ret.key).err = "ErrKeyNotFound"
  /\ \E j \in SKeys \ {ret.key} : GetDataNow(j).err = "nil"
  /\ now = 0

\* C9: sql: DeleteInvalidKeys removes exactly the rows with validUntil <= now
\* and returns their number.
C9_DeleteInvalidExact ==
  [][(backend = "sql" /\ ret'.op = "DeleteInvalidKeys" /\ ret'.err = "nil" /\ faults' = faults)
       => LET invalid == {k \in SKeys : rows[k].present /\ SQLGetData(rows, k).data.ValidUntil <= now}
          IN /\ rows' = DeleteRows(rows, invalid)
             /\ ret'.count = Cardinality(invalid)]_vars

\* C10: redis: DeleteInvalidKeys returns (0, nil) and changes no session
\* record, no user set and no expiry, in any state.
C10_DeleteInvalidNoopRedis ==
  [][(backend = "redis" /\ ret'.op = "DeleteInvalidKeys")
       => /\ ret'.count = 0 /\ ret'.err = "nil"
          /\ db' = db /\ tasks' = tasks]_vars

\* DeleteInvalidKeys has returned while a session past its validUntil is
\* still stored
C10_Witness ==
  /\ backend = "redis" /\ ret.op = "DeleteInvalidKeys"
  /\ \E k \in SKeys : GetDataNow(k).err = "nil" /\ GetDataNow(k).data.ValidUntil <= now

\* C11: redis: CreateEntry returns an error exactly when its HMSet or its
\* Expire on the session record failed; at its return the goroutine it
\* started has run no command and the user's set is as it was; a step of a
\* goroutine, failed or not, returns nothing to any caller.
C11_MaintenanceNotSurfaced ==
  [][/\ (backend = "redis" /\ ret'.op = "CreateEntry")
          => /\ (ret'.err = "nil") <=> (faults' = faults)
             /\ tasks' = IF ret'.err = "nil"
                           THEN Spawn(NewTask(ret'.user, ret'.key, ret'.d))
                           ELSE tasks
             /\ \A n \in Names \ {SessionName(ret'.key)} : db'[n] = db[n]
     /\ \A t \in Running :
          (MaintSAdd(t) \/ MaintTTL(t) \/ MaintExpire(t)
             \/ SweepSMembers(t) \/ SweepExists(t) \/ SweepDel(t))
            => ret'.op = "none"]_vars

\* the SAdd of a goroutine has failed: its key is missing from the set
C11_Witness ==
  /\ backend = "redis" /\ faults > 0 /\ ret.op = "none"
  /\ \E t \in Running : t.pc = "ttl" /\ t.key \notin UserSet(t.user)
  /\ \E k \in SKeys : HasRecord(k)

\* the stored hash has the three fields, each in the form GetData parses
WellFormed(h) ==
  /\ DOMAIN h = {"User", "CreationTime", "ValidUntil"}
  /\ h.User.txt = "num"
  /\ h.CreationTime.txt = "time"
  /\ h.ValidUntil.txt = "time"

\* C20: redis: GetData (the HMGet working) returns ErrKeyNotFound when the
\* key is absent, an error other than ErrKeyNotFound and no data when the
\* record exists but a field is missing or does not parse, and the record
\* otherwise.
C20_GetDataOutcomes ==
  (backend = "redis" /\ ret.op = "GetData" /\ ret.err # "StoreErr")
    => LET rec == db[SessionName(ret.key)]
       IN /\ rec.type = "none" => ret.err = "ErrKeyNotFound"
          /\ (rec.type = "hash" /\ ~WellFormed(rec.fields))
               => (ret.err \notin {"nil", "ErrKeyNotFound"} /\ ret.data = NoData)
          /\ (rec.type = "hash" /\ WellFormed(rec.fields))
               => /\ ret.err = "nil"
                  /\ ret.data.User = ConvertUser(rec.fields.User).u
                  /\ ret.data.CreationTime = ParseTime(rec.fields.CreationTime).t
                  /\ ret.data.ValidUntil = ParseTime(rec.fields.ValidUntil).t

\* --------------------------------------------- claims on the user handlers
\* the user record of a name as the handler in use stores it
URec(u, t, name) ==
  IF backend = "redis"
    THEN [present |-> u.hash[name].present, id |-> ParseUint(u.hash[name].id).id,
          password |-> u.hash[name].password, firstName |-> u.hash[name].firstName,
          lastName |-> u.hash[name].lastName, email |-> u.hash[name].email,
          lastLogin |-> ParseTime(u.hash[name].last_login).t]
    ELSE [present |-> t.rows[name].present, id |-> t.rows[name].id,
          password |-> t.rows[name].password, firstName |-> t.rows[name].first_name,
          lastName |-> t.rows[name].last_name, email |-> t.rows[name].email,
          lastLogin |-> DefaultTimeFromScanType(t.rows[name].last_login)]

Stored(name) == URec(udb, utab, name)
StoredNames == {n \in UserNames : Stored(n).present}

\* what the lookups of the handler in use answer on the stores u, t
ValidateOn(u, t, name, pw) ==
  IF backend = "redis" THEN RedisValidate(u, name, pw) ELSE SQLValidate(t, name, pw)
GetUserIDOn(u, t, name) ==
  IF backend = "redis" THEN RedisGetUserID(u, name).err
  ELSE IF t.rows[name].present THEN "nil" ELSE "ErrUserNotFound"
GetUserBaseInfoOn(u, t, name) ==
  IF backend = "redis" THEN RedisGetUserBaseInfo(u, name) ELSE SQLGetUserBaseInfo(t, name)
GetUserNameOn(u, t, id) ==
  IF backend = "redis"
    THEN (IF u.idmap[ToString(id)] = NoName THEN "ErrUserNotFound" ELSE "nil")
    ELSE (IF GetUsernameQ(t, id) = {} THEN "ErrUserNotFound" ELSE "nil")

\* the ids handed out so far
LastId == IF backend = "redis" THEN udb.nxt ELSE utab.serial

\* C12: both user handlers: Validate (its store command working) returns the
\* stored id and no error for an existing user with the right password,
\* NoUserID and no error for an existing user with a wrong password, and
\* NoUserID with ErrUserNotFound for a name without record; no stored id is
\* NoUserID.
C12_ValidateOutcomes ==
  [][(ret'.op = "Validate" /\ faults' = faults)
       => LET r == Stored(ret'.key)
          IN /\ r.present => r.id # NoUserID
             /\ IF ~r.present
                  THEN ret'.user = NoUserID /\ ret'.err = "ErrUserNotFound"
                  ELSE IF r.password.val = ret'.pw
                    THEN ret'.user = r.id /\ ret'.err = "nil"
                    ELSE ret'.user = NoUserID /\ ret'.err = "nil"]_vars

\* Validate has answered a wrong password for a stored user
C12_Witness ==
  /\ ret.op = "Validate" /\ ret.err = "nil" /\ ret.user = NoUserID
  /\ Stored(ret.key).present
  /\ backend = "redis"

\* C13: both user handlers, one call at a time: Insert with a username that
\* has a record returns an error and leaves every user record, the id
\* mappings and (redis) the id counter as they were.
C13_InsertDuplicate ==
  [][(ret'.op = "Insert" /\ pending = EmptyBag /\ Stored(ret'.key).present)
       => /\ ret'.err # "nil"
          /\ udb' = udb
          /\ utab'.rows = utab.rows]_vars

\* a second Insert of a stored name has been refused
C13_Witness ==
  /\ ret.op = "Insert" /\ ret.err \in {"UsernameInUse", "DuplicateEntry"}
  /\ Stored(ret.key).present
  /\ Stored(ret.key).password.val # ret.pw

\* C14: redis user handler, Insert calls interleaving command by command:
\* an Insert returns success only when the name had no record, and every
\* id mapping belongs to a user record that carries that id.
C14_UniqueUsernames ==
  [][backend = "redis"
       => /\ (ret'.op = "Insert" /\ ret'.err = "nil") => ~udb.hash[ret'.key].present
          /\ \A i \in IdTexts :
               udb'.idmap[i] # NoName
                 => /\ udb'.hash[udb'.idmap[i]].present
                    /\ udb'.hash[udb'.idmap[i]].id.val = i]_vars

\* C15: both user handlers: UpdatePassword (no command failing) on a name
\* without record returns ErrUserNotFound and leaves the store unchanged.
C15_UpdatePasswordMissing ==
  [][(ret'.op = "UpdatePassword" /\ faults' = faults /\ ~Stored(ret'.key).present)
       => /\ ret'.err = "ErrUserNotFound"
          /\ udb' = udb /\ utab' = utab]_vars

\* C16: both user handlers: DeleteUser (no command failing) on a name
\* without record returns ErrUserNotFound; on a stored name it returns no
\* error and afterwards Validate, GetUserID, GetUserBaseInfo of the name and
\* GetUserName of its id answer ErrUserNotFound.
C16_DeleteUser ==
  [][(ret'.op = "DeleteUser" /\ faults' = faults)
       => IF ~Stored(ret'.key).present
            THEN ret'.err = "ErrUserNotFound"
            ELSE /\ ret'.err = "nil"
                 /\ \A pw \in Passwords :
                      ValidateOn(udb', utab', ret'.key, pw).err = "ErrUserNotFound"
                 /\ GetUserIDOn(udb', utab', ret'.key) = "ErrUserNotFound"
                 /\ GetUserBaseInfoOn(udb', utab', ret'.key).err = "ErrUserNotFound"
                 /\ GetUserNameOn(udb', utab', Stored(ret'.key).id) = "ErrUserNotFound"]_vars
\* the usernames whose stored record carries the id
Holders(id) == {n \in StoredNames : Stored(n).id = id}

\* C17: on both backends GetUserName(id), GetUserID(username) and
\* GetUserBaseInfo(username), when the store answers, return ErrUserNotFound
\* exactly when no stored user record has the id / the username, and otherwise
\* return the stored value with no error; none of them changes the store.
C17_Lookups ==
  [][ (ret'.op \in {"GetUserName", "GetUserID", "GetUserBaseInfo"}) =>
        /\ udb' = udb /\ utab' = utab
        /\ faults' = faults =>
             /\ ret'.op = "GetUserName" =>
                  IF Holders(ret'.user) = {}
                    THEN ret'.err = "ErrUserNotFound"
                    ELSE ret'.err = "nil" /\ ret'.name \in Holders(ret'.user)
             /\ ret'.op = "GetUserID" =>
                  IF ret'.key \in StoredNames
                    THEN ret'.err = "nil" /\ ret'.user = Stored(ret'.key).id
                    ELSE ret'.err = "ErrUserNotFound" /\ ret'.user = NoUserID
             /\ ret'.op = "GetUserBaseInfo" =>
                  IF ret'.key \in StoredNames
                    THEN /\ ret'.err = "nil"
                         /\ ret'.info.ID = Stored(ret'.key).id
                         /\ ret'.info.UserName = ret'.key
                         /\ ret'.info.FirstName = Stored(ret'.key).firstName
                         /\ ret'.info.LastName = Stored(ret'.key).lastName
                         /\ ret'.info.Email = Stored(ret'.key).email
                         /\ ret'.info.LastLogin = Stored(ret'.key).lastLogin
                    ELSE ret'.err = "ErrUserNotFound" ]_vars

\* GetUserName answered ErrUserNotFound for an id that was handed out and
\* whose user was deleted since, while another user is stored
C17_Witness ==
  /\ ret.op = "GetUserName" /\ ret.err = "ErrUserNotFound"
  /\ ret.user <= LastId
  /\ StoredNames # {}

\* C18: on both backends, after any history of Insert, UpdatePassword and
\* DeleteUser calls made one after the other, ListUsers (when the store
\* answers) returns no error and exactly the pairs id -> username of the user
\* records stored at that time: the empty mapping when there is none.
C18_ListUsers ==
  [][ (ret'.op = "ListUsers" /\ faults' = faults) =>
        /\ ret'.err = "nil"
        /\ ret'.users = {<<Stored(n).id, n>> : n \in StoredNames}
        /\ udb' = udb /\ utab' = utab ]_vars

\* ListUsers returned one user after two ids were handed out
C18_Witness ==
  /\ ret.op = "ListUsers" /\ ret.err = "nil"
  /\ Cardinality(ret.users) = 1
  /\ LastId >= 2

\* the callers inside a database call of handler h
InDB(h) == {c \in Callers : procs[c].pc = "db" /\ procs[c].o.h = h}

\* C19: with blockDB set, every operation of SQLSessionHandler and
\* SQLUserHandler holds the handler's RWMutex during its database call (the
\* write lock when it changes the database, the read lock when it reads), so
\* no database call overlaps a changing database call of another operation
\* of the same handler.
C19_LockHeld ==
  \A h \in Handlers :
    /\ \A c \in InDB(h) :
         IF procs[c].o.writes THEN mutex[h].writer = c
         ELSE c \in mutex[h].readers
    /\ \A c, d \in InDB(h) :
         (c # d /\ procs[c].o.writes) => FALSE


\* C21: sql: GetData does not look at the clock.  When the store answers, it
\* returns the row of the key as stored, with the row's own valid_until, also
\* when that is at or before now, and ErrKeyNotFound only when the table has
\* no row of the key; it changes no row.  A row leaves the table only by
\* DeleteKey, DeleteEntriesForUser or DeleteInvalidKeys.
C21_SQLGetDataNoExpiry ==
  [][backend = "sql" =>
       /\ (ret'.op = "GetData" /\ faults' = faults) =>
            /\ rows' = rows
            /\ IF rows[ret'.key].present
                 THEN /\ ret'.err = "nil"
                      /\ ret'.data.User = rows[ret'.key].user_id
                      /\ ret'.data.CreationTime = Res * rows[ret'.key].created
                      /\ ret'.data.ValidUntil = Res * rows[ret'.key].valid_until
                 ELSE ret'.err = "ErrKeyNotFound"
       /\ \A k \in SKeys :
            (rows[k].present /\ ~rows'[k].present)
              => ret'.op \in {"DeleteKey", "DeleteEntriesForUser", "DeleteInvalidKeys"}]_vars

\* GetData has returned a row whose valid_until is not after now
C21_Witness ==
  /\ backend = "sql" /\ ret.op = "GetData" /\ ret.err = "nil"
  /\ rows[ret.key].present
  /\ ret.data.ValidUntil <= now

\* the calls of Insert that hold an id and have not run their transaction
Holding(p) == {c \in BagToSet(p) : c.pc = "exec"}

\* C22 as stated: redis: a successful Insert returns an id above the id of
\* every user inserted by a call that returned before it, and an id no stored
\* mapping carries.
C22_IdsIncreaseInCallOrder ==
  [][(backend = "redis" /\ ret'.op = "Insert" /\ ret'.err = "nil")
       => \A i \in Ids : udb.idmap[ToString(i)] # NoName => i < ret'.user]_vars

\* C22: redis: every id is handed out by one Incr of a counter that no call
\* ever lowers (DeleteUser leaves it alone), so the ids of successful Inserts
\* are pairwise distinct over the whole history, none is handed out again
\* after its user was deleted, and they increase in the order of the Incr
\* commands: an Insert that starts after another has returned gets the larger
\* id, while of two overlapping Inserts the one that returns later may carry
\* the smaller id.
C22_IdsDistinct ==
  [][backend = "redis" =>
       /\ udb'.nxt >= udb.nxt
       /\ \A c \in Holding(pending') :
            /\ c.id \in 1..udb'.nxt
            /\ CopiesIn(c, pending') = 1
            /\ udb'.idmap[ToString(c.id)] = NoName
            /\ \A d \in Holding(pending') : d.id = c.id => d = c
            /\ c \notin Holding(pending) => (c.id = udb.nxt + 1 /\ udb'.nxt = c.id)
       /\ \A i \in Ids : udb'.idmap[ToString(i)] # NoName => i <= udb'.nxt
       /\ (ret'.op = "Insert" /\ ret'.err = "nil") =>
            /\ \E c \in Holding(pending) : c.id = ret'.user /\ c.name = ret'.key
            /\ udb.idmap[ToString(ret'.user)] = NoName]_vars

\* of two overlapping Inserts the one that took its id first has returned last
C22_Witness ==
  /\ backend = "redis" /\ ret.op = "Insert" /\ ret.err = "nil"
  /\ ret.user = 1
  /\ udb.idmap[ToString(2)] # NoName

\* C23: both user handlers: an Insert whose GenerateHash fails returns that
\* error and the no-user id and leaves user records, id counter and id
\* mappings as they were, and no Insert is left in progress; a call of Insert
\* in progress carries the hash, and the password of every user record is a
\* hash: after a successful Insert the one of the password given.
C23_HashBeforeWrite ==
  [][/\ (ret'.op = "Insert" /\ ret'.err = "EncErr")
          => /\ udb' = udb /\ utab' = utab /\ pending' = pending
             /\ ret'.user = NoUserID
     /\ \A c \in BagToSet(pending') : c.password = GenerateHash(c.arg)
     /\ \A n \in UserNames :
          URec(udb', utab', n).present => URec(udb', utab', n).password.txt = "hash"
     /\ (ret'.op = "Insert" /\ ret'.err = "nil")
          => /\ URec(udb', utab', ret'.key).present
             /\ URec(udb', utab', ret'.key).password = GenerateHash(ret'.pw)]_vars

\* an Insert has failed in GenerateHash while a user is stored
C23_Witness ==
  /\ ret.op = "Insert" /\ ret.err = "EncErr"
  /\ StoredNames # {}
  /\ ret.key \notin StoredNames

\* a command of a goroutine started by CreateEntry runs in this step
Maintenance ==
  \E t \in Running :
    MaintSAdd(t) \/ MaintTTL(t) \/ MaintExpire(t)
      \/ SweepSMembers(t) \/ SweepExists(t) \/ SweepDel(t)

\* the members of user u's set in the store d
Members(d, u) == RSMembers(d, UserIdentifier(u))

\* C24: redis: a step of the maintenance never removes from a user's set a
\* key whose session record exists, and running the command of the step
\* once more right away leaves the same members in every user's set.
C24_MaintenanceMonotone ==
  [][(backend = "redis" /\ Maintenance)
       => /\ \A u \in Users, k \in SKeys :
               (k \in UserSet(u) /\ HasRecord(k)) => k \in Members(db', u)
          /\ \A t \in Running, u \in Users :
               faults' = faults =>
                 /\ MaintSAdd(t) =>
                      Members(RSAdd(db', UserIdentifier(t.user), t.key), u) = Members(db', u)
                 /\ MaintExpire(t) =>
                      Members(RExpire(db', UserIdentifier(t.user), t.userExp, now), u)
                        = Members(db', u)
                 /\ SweepDel(t) => Members(RDel(db', t.dels), u) = Members(db', u)]_vars


\* the keys whose session record exists in the store d
Records(d) == {k \in SKeys : RExists(d, SessionName(k)) = 1}

\* C25: redis: the count a DeleteEntriesForUser(u) returns with no error is
\* the number of session records (names SessionPrefix + key) that existed
\* before the call and do not exist after it, and 0 when u has no set.
C25_DeleteCountRedis ==
  [][(backend = "redis" /\ ret'.op = "DeleteEntriesForUser" /\ ret'.err = "nil")
       => /\ ret'.count = Cardinality(Records(db) \ Records(db'))
          /\ UserSet(ret'.user) = {} => ret'.count = 0]_vars

\* DeleteEntriesForUser has returned for a user whose set names a key with a
\* session record
C25_Witness ==
  /\ backend = "redis" /\ ret.op = "DeleteEntriesForUser" /\ ret.err = "nil"
  /\ \E k \in UserSet(ret.user) : HasRecord(k)

\* C26: both session handlers: every session record stored, whatever the
\* validDuration given to CreateEntry (zero and negative ones included), has
\* its validUntil after its creationTime.
C26_ValidUntilAfterCreation ==
  \A k \in SKeys :
    GetDataNow(k).err = "nil"
      => GetDataNow(k).data.ValidUntil > GetDataNow(k).data.CreationTime

\* C27: both user handlers: an UpdatePassword changes nothing but the
\* password of a user record that exists: id, username, names, email, active
\* flag, last login, the id mappings and the id counter stay, and no record
\* appears for a username that had none, also when the call overlaps a
\* DeleteUser of that username (redis).
C27_UpdatePasswordOnly ==
  [][ret'.op = "UpdatePassword"
       => /\ \A n \in UserNames :
               /\ udb'.hash[n] = [udb.hash[n] EXCEPT !.password = udb'.hash[n].password]
               /\ utab'.rows[n] = [utab.rows[n] EXCEPT !.password = utab'.rows[n].password]
               /\ ~Stored(n).present
                    => udb'.hash[n] = udb.hash[n] /\ utab'.rows[n] = utab.rows[n]
          /\ udb'.idmap = udb.idmap /\ udb'.nxt = udb.nxt
          /\ utab'.serial = utab.serial]_vars

\* C28: redis: parsing the text written for an instant on a whole second
\* gives that instant back, and the creationTime and validUntil GetData
\* returns for a session are those CreateEntry wrote and returned to its
\* caller.
C28_TimestampRoundTrip ==
  /\ \A t \in 0..(MaxTime + 2 * Res) :
       t % Res = 0 => ParseTime(RedisDateFormat(t)) = [ok |-> TRUE, t |-> t]
  /\ (backend = "redis" /\ ret.op = "CreateEntry" /\ ret.err = "nil"
        /\ GetDataNow(ret.key).err = "nil")
       => /\ GetDataNow(ret.key).data.CreationTime = ret.data.CreationTime
          /\ GetDataNow(ret.key).data.ValidUntil = ret.data.ValidUntil


\* the keys issued to user u and to nobody else
IssuedOnlyTo(u) ==
  {k \in SKeys : <<u, k>> \in issued /\ \A v \in Users \ {u} : <<v, k>> \notin issued}

C30_SQLDuplicateKey ==
  [][(backend = "sql" /\ ret'.op = "CreateEntry" /\ rows[ret'.key].present)
       => /\ ret'.err # "nil"
          /\ ret'.data = NoData
          /\ rows' = rows
          /\ issued' = issued]_vars

\* a CreateEntry was refused for a key that has a row of another user
C30_Witness ==
  /\ backend = "sql" /\ ret.op = "CreateEntry" /\ ret.err = "DuplicateKey"
  /\ rows[ret.key].present
  /\ rows[ret.key].user_id # ret.user

\* C31: redis: no command of a maintenance goroutine deletes a session
\* record that exists when the command runs, however the sweep's Exists and
\* Del interleave with a CreateEntry that creates a record under a key of the
\* user's set.
C31_SweepKeepsRecords ==
  [][(backend = "redis" /\ Maintenance)
       => \A k \in SKeys : HasRecord(k) => RExists(db', SessionName(k)) = 1]_vars

\* C32: redis: in every state every session record in the store has an
\* expiry, and the expiry is no later than the second of the ValidUntil the
\* record holds; a CreateEntry that returned an error leaves no record
\* without an expiry behind.
C32_RecordsCarryTTL ==
  backend = "redis" =>
    \A k \in SKeys :
      HasRecord(k) =>
        /\ db[SessionName(k)].exp # NoExp
        /\ LET valid == ParseTime(RHMGet(db, SessionName(k), <<"ValidUntil">>)[1])
           IN valid.ok /\ db[SessionName(k)].exp < valid.t + Res

\* C33: redis: once every maintenance goroutine has ended, with no store
\* failure, a user's set that lists the key of an existing session record
\* of that user expires no earlier than the record, however the goroutines
\* of concurrent CreateEntry calls interleaved.
C33_SetOutlivesRecords ==
  (backend = "redis" /\ Quiescent /\ faults = 0) =>
    \A u \in Users, k \in SKeys :
      (/\ k \in UserSet(u) /\ db[UserIdentifier(u)].exp # NoExp
       /\ GetDataNow(k).err = "nil" /\ GetDataNow(k).data.User = u)
        => /\ db[SessionName(k)].exp # NoExp
           /\ db[UserIdentifier(u)].exp >= db[SessionName(k)].exp

\* C34: both user handlers, one call at a time: an Insert that returns no
\* error returns an id other than NoUserID, the id the record of the name
\* now carries, and the id leads back to the name.
C34_InsertReturnsRealId ==
  [][(ret'.op = "Insert" /\ ret'.err = "nil")
       => /\ ret'.user # NoUserID
          /\ URec(udb', utab', ret'.key).present
          /\ URec(udb', utab', ret'.key).id = ret'.user
          /\ IF backend = "redis"
               THEN udb'.idmap[ToString(ret'.user)] = ret'.key
               ELSE GetUsernameQ(utab', ret'.user) = {ret'.key}]_vars

\* C35: redis user handler, Insert and DeleteUser calls interleaving command
\* by command: in every state a user record with id i exists under a name
\* exactly when the id mapping of i exists and holds that name.
C35_RecordsMatchMappings ==
  backend = "redis" =>
    /\ \A n \in UserNames :
         udb.hash[n].present
           => /\ udb.hash[n].id.val \in IdTexts
              /\ udb.idmap[udb.hash[n].id.val] = n
    /\ \A i \in IdTexts :
         udb.idmap[i] # NoName
           => /\ udb.hash[udb.idmap[i]].present
              /\ udb.hash[udb.idmap[i]].id.val = i

\* C36: sql, blockDB set: a caller of SQLUserHandler that is inside a call
\* of the PasswordHandler (GenerateHash of Insert and UpdatePassword,
\* CheckPassword of Validate) holds neither the write lock nor a read lock
\* of the handler.
C36_NoLockWhileHashing ==
  \A c \in Callers :
    procs[c].pc \in {"hash", "check"}
      => /\ mutex[procs[c].o.h].writer # c
         /\ c \notin mutex[procs[c].o.h].readers

\* C37: both user handlers: a Validate call, whatever it returns (the id,
\* NoUserID for a wrong password, ErrUserNotFound, a store error), leaves
\* every field of every user record, the id counter and the id mappings as
\* they were.
C37_ValidateReadOnly ==
  [][ret'.op = "Validate"
       => /\ udb' = udb
          /\ utab' = utab
          /\ \A n \in UserNames : URec(udb', utab', n) = Stored(n)]_vars

\* Validate has returned the id of a user who was inserted at an earlier
\* second
C37_Witness ==
  /\ ret.op = "Validate" /\ ret.err = "nil" /\ ret.user # NoUserID
  /\ Stored(ret.key).present /\ Stored(ret.key).id = ret.user
  /\ Stored(ret.key).lastLogin + Res <= now
====
